---- MODULE Spec2Model ----
(***************************************************************************)
(* StorageMeter (StorageMeter.cpp): the write benchmark TestDriveWrite.    *)
(*                                                                         *)
(* TLC's integers are 32 bits wide, the program's are not: nanosecond      *)
(* counts (uint64_t) and byte counts (size_t, taken as 64 bits) are kept   *)
(* as little-endian sequences of 12-bit limbs, and float is IEEE-754       *)
(* binary32 with round-to-nearest-even, kept as <<kind, mantissa, exp>>.   *)
(* Every float of the program is >= 0, so no sign is kept.                 *)
(***************************************************************************)
EXTENDS Integers, Sequences, FiniteSets, TLC

(***************************************************************************)
(* Bounds of the model.                                                    *)
(***************************************************************************)
\* The sweep is followed up to trials of MaxThreads writer threads.
MaxThreads == 4

(***************************************************************************)
(* Program constants.                                                      *)
(***************************************************************************)
g_portionSize == 104857600
g_portionsCount == 10
g_maxSlowTests == 2

(***************************************************************************)
(* uint64_t / size_t arithmetic on limb sequences.                         *)
(***************************************************************************)
Limb == 2^12

RECURSIVE Pow2(_)
Pow2(n) == IF n = 0 THEN 1 ELSE 2 * Pow2(n - 1)

RECURSIVE BTrim(_)
\* canonical form: no most-significant zero limb; zero is << >>
BTrim(a) ==
    IF Len(a) > 0 /\ a[Len(a)] = 0 THEN BTrim(SubSeq(a, 1, Len(a) - 1)) ELSE a

RECURSIVE BN(_)
\* the limb sequence of a natural number that TLC can hold
BN(n) == IF n = 0 THEN << >> ELSE <<n % Limb>> \o BN(n \div Limb)

BLimb(a, i) == IF i <= Len(a) THEN a[i] ELSE 0

RECURSIVE BAddC(_, _, _, _)
BAddC(a, b, i, carry) ==
    IF i > Len(a) /\ i > Len(b)
    THEN (IF carry = 0 THEN << >> ELSE <<carry>>)
    ELSE LET s == BLimb(a, i) + BLimb(b, i) + carry
         IN  <<s % Limb>> \o BAddC(a, b, i + 1, s \div Limb)

\* a + b
BAdd(a, b) == BTrim(BAddC(a, b, 1, 0))

RECURSIVE BMulSC(_, _, _, _)
BMulSC(a, k, i, carry) ==
    IF i > Len(a)
    THEN BN(carry)
    ELSE LET p == a[i] * k + carry
         IN  <<p % Limb>> \o BMulSC(a, k, i + 1, p \div Limb)

\* a * k for a small k (k < 2^18)
BMulS(a, k) == BTrim(BMulSC(a, k, 1, 0))

RECURSIVE BDivSC(_, _, _, _)
\* long division from the most significant limb; yields <<quotient limbs, rem>>
BDivSC(a, k, i, rem) ==
    IF i = 0
    THEN << << >>, rem >>
    ELSE LET cur  == rem * Limb + a[i]
             rest == BDivSC(a, k, i - 1, cur % k)
         IN  << rest[1] \o <<cur \div k>>, rest[2] >>

\* a \div k for a small k (0 < k < 2^18)
BDivS(a, k) == BTrim(BDivSC(a, k, Len(a), 0)[1])

\* a % k for a small k
BModS(a, k) == BDivSC(a, k, Len(a), 0)[2]

RECURSIVE BToNat(_)
\* the value of a limb sequence that TLC can hold (below 2^31)
BToNat(a) == IF Len(a) = 0 THEN 0 ELSE a[1] + Limb * BToNat(Tail(a))

RECURSIVE BitLen(_)
BitLen(n) == IF n = 0 THEN 0 ELSE 1 + BitLen(n \div 2)

\* number of significant bits of a
BBits(a) == IF Len(a) = 0 THEN 0 ELSE 12 * (Len(a) - 1) + BitLen(a[Len(a)])

RECURSIVE BAnyNonZero(_, _)
BAnyNonZero(a, n) == n > 0 /\ (BLimb(a, n) # 0 \/ BAnyNonZero(a, n - 1))

\* a \div 2^s
BShr(a, s) ==
    LET drop == s \div 12
        kept == IF drop >= Len(a) THEN << >> ELSE SubSeq(a, drop + 1, Len(a))
    IN  BDivS(kept, Pow2(s % 12))

\* whether a % 2^s # 0
BLowBits(a, s) ==
    LET drop == s \div 12
        kept == IF drop >= Len(a) THEN << >> ELSE SubSeq(a, drop + 1, Len(a))
    IN  BAnyNonZero(a, drop) \/ BModS(kept, Pow2(s % 12)) # 0

\* a % 2^64: what a 64-bit unsigned integer keeps of a
Wrap64(a) ==
    IF Len(a) <= 5 THEN a
    ELSE BTrim(SubSeq(a, 1, 5) \o <<a[6] % 16>>)

(***************************************************************************)
(* IEEE-754 binary32, values >= 0.  A finite nonzero float is              *)
(* <<"fin", m, e>> with 2^23 <= m < 2^24 and value m * 2^e.                *)
(***************************************************************************)
FZero == <<"fin", 0, 0>>
FInf  == <<"inf", 0, 0>>
FNaN  == <<"nan", 0, 0>>

RECURSIVE FRound(_, _, _)
\* round-to-nearest-even of (m + s) * 2^e to 24 significant bits, where
\* 0 < m < 2^31 and sticky says that 0 < s < 1 was cut off below m
FRound(m, e, sticky) ==
    IF m >= 2^25
    THEN FRound(m \div 2, e + 1, sticky \/ m % 2 = 1)
    ELSE IF m >= 2^24
    THEN LET q  == m \div 2
             up == m % 2 = 1 /\ (sticky \/ q % 2 = 1)
             r  == IF up THEN q + 1 ELSE q
         IN  IF r = 2^24 THEN <<"fin", 2^23, e + 2>> ELSE <<"fin", r, e + 1>>
    ELSE IF m >= 2^23
    THEN <<"fin", m, e>>
    ELSE FRound(2 * m, e - 1, sticky)

\* static_cast<float>(n) of an integer that TLC can hold
NatToF(n) == IF n = 0 THEN FZero ELSE FRound(n, 0, FALSE)

\* static_cast<float>(a) of a 64-bit unsigned integer
BToF(a) ==
    LET bits == BBits(a)
    IN  IF bits <= 30 THEN NatToF(BToNat(a))
        ELSE FRound(BToNat(BShr(a, bits - 26)), bits - 26, BLowBits(a, bits - 26))

RECURSIVE FDivBits(_, _, _, _)
\* n more quotient bits of rem / den: <<quotient, remainder>>
FDivBits(q, rem, den, n) ==
    IF n = 0 THEN <<q, rem>>
    ELSE LET r2 == 2 * rem
         IN  IF r2 >= den THEN FDivBits(2 * q + 1, r2 - den, den, n - 1)
                          ELSE FDivBits(2 * q, r2, den, n - 1)

\* a / b
FDiv(a, b) ==
    IF a[1] = "nan" \/ b[1] = "nan" THEN FNaN
    ELSE IF a[1] = "inf" THEN (IF b[1] = "inf" THEN FNaN ELSE FInf)
    ELSE IF b[1] = "inf" THEN FZero
    ELSE IF b[2] = 0 THEN (IF a[2] = 0 THEN FNaN ELSE FInf)
    ELSE IF a[2] = 0 THEN FZero
    ELSE LET qr == FDivBits(a[2] \div b[2], a[2] % b[2], b[2], 26)
         IN  FRound(qr[1], a[3] - b[3] - 26, qr[2] # 0)

\* a * b
FMul(a, b) ==
    IF a[1] = "nan" \/ b[1] = "nan" THEN FNaN
    ELSE IF a[1] = "inf" \/ b[1] = "inf"
    THEN (IF (a[1] = "fin" /\ a[2] = 0) \/ (b[1] = "fin" /\ b[2] = 0) THEN FNaN ELSE FInf)
    ELSE IF a[2] = 0 \/ b[2] = 0 THEN FZero
    ELSE LET full == BAdd(BMulS(BN(a[2]), b[2] % Limb),
                          <<0>> \o BMulS(BN(a[2]), b[2] \div Limb))
             bits == BBits(full)
         IN  FRound(BToNat(BShr(full, bits - 26)), a[3] + b[3] + bits - 26,
                    BLowBits(full, bits - 26))

\* a < b
FLess(a, b) ==
    IF a[1] = "nan" \/ b[1] = "nan" THEN FALSE
    ELSE IF a[1] = "inf" THEN FALSE
    ELSE IF b[1] = "inf" THEN TRUE
    ELSE IF b[2] = 0 THEN FALSE
    ELSE IF a[2] = 0 THEN TRUE
    ELSE IF a[3] # b[3] THEN a[3] < b[3]
    ELSE a[2] < b[2]

\* a > b
FGreater(a, b) == FLess(b, a)

\* static_cast<size_t>(a) of a finite float below 2^31: truncation
FToNat(a) ==
    IF a[2] = 0 THEN 0
    ELSE IF a[3] >= 0 THEN a[2] * Pow2(a[3])
    ELSE IF a[3] <= -24 THEN 0
    ELSE a[2] \div Pow2(-a[3])

(***************************************************************************)
(* The pure functions of the program.                                      *)
(***************************************************************************)
\* g_maxTestDuration = 2.0
g_maxTestDuration == NatToF(2)

\* static_cast<float>(firstWriteTime.count()) / (1000 * 1000 * 1000)
FirstWriteTimeSeconds(ns) == FDiv(BToF(ns), NatToF(1000 * 1000 * 1000))

\* the ratio taken upside down: elapsed / budget
CalibratedSize_Inverted(size, ns) ==
    LET firstWriteTimeSeconds == FirstWriteTimeSeconds(ns)
    IN  IF FGreater(firstWriteTimeSeconds, g_maxTestDuration)
        THEN FToNat(FMul(FDiv(firstWriteTimeSeconds, g_maxTestDuration), NatToF(size)))
        ELSE size

\* TestDriveWriteFirst: portion.size() after the call, for portion.size() = size
\* before it and a calibration write that took ns nanoseconds
CalibratedSize(size, ns) ==
    LET firstWriteTimeSeconds == FirstWriteTimeSeconds(ns)
    IN  IF FGreater(firstWriteTimeSeconds, g_maxTestDuration)
        THEN LET prefferedPortionSize ==
                     FMul(FDiv(g_maxTestDuration, firstWriteTimeSeconds), NatToF(size))
             IN  FToNat(prefferedPortionSize)
        ELSE size

\* portion.size() * g_portionsCount * threadsCount / 1024 / 1024 (size_t)
MegaBytes(size, threadsCount) ==
    BDivS(BDivS(Wrap64(BMulS(Wrap64(BMulS(BN(size), g_portionsCount)), threadsCount)),
                1024), 1024)

\* CalculateSpeed(portion, threadsCount, ns)
CalculateSpeed(size, threadsCount, ns) ==
    FDiv(BToF(MegaBytes(size, threadsCount)),
         FDiv(FDiv(FDiv(BToF(ns), NatToF(1000)), NatToF(1000)), NatToF(1000)))

\* "thread" + std::to_string(threadNumber + 1), as a sequence of characters
RECURSIVE to_string(_)
to_string(n) ==
    LET digit == <<"0", "1", "2", "3", "4", "5", "6", "7", "8", "9">>[(n % 10) + 1]
    IN  IF n < 10 THEN <<digit>> ELSE to_string(n \div 10) \o <<digit>>

\* one file name for every thread
GetFileNameForThread_Shared(threadNumber) == <<"thread">> \o to_string(1)

\* names counted from 0: "thread" + std::to_string(threadNumber)
GetFileNameForThread_ZeroBased(threadNumber) == <<"thread">> \o to_string(threadNumber)

GetFileNameForThread(threadNumber) == <<"thread">> \o to_string(threadNumber + 1)

\* dirPath / "single_thread"
SingleThreadName == <<"single_thread">>

\* an equal throughput counted as a regression
NextSlowTests_Leq(slowTests_, currentSpeed, lastSpeed_) ==
    IF ~FLess(lastSpeed_, currentSpeed) THEN (slowTests_ + 1) % 256 ELSE 0

\* a counter that is never reset: it counts all regressions, not consecutive ones
NextSlowTests_NoReset(slowTests_, currentSpeed, lastSpeed_) ==
    IF FLess(currentSpeed, lastSpeed_) THEN (slowTests_ + 1) % 256 ELSE slowTests_

\* the if/else of the sweep on currentSpeed < lastSpeed (slowTests is a uint8_t)
NextSlowTests(slowTests_, currentSpeed, lastSpeed_) ==
    IF FLess(currentSpeed, lastSpeed_) THEN (slowTests_ + 1) % 256 ELSE 0

\* the count of the trial before the last one
ReturnAfterLoop_Prior(threadsCount_) == threadsCount_ - 2

\* the value returned when the while condition fails
ReturnAfterLoop(threadsCount_) == threadsCount_ - 1

\* the last count whose trial succeeded
ReturnOnBad_Prior(threadsCount_) == threadsCount_ - 1

\* the value returned when a writer thread of the trial failed
ReturnOnBad(threadsCount_) == threadsCount_

(***************************************************************************)
(* Inputs: what the StopWatch can measure.  n milliseconds in nanoseconds. *)
(***************************************************************************)
Ms(n) == BMulS(BN(1000 * 1000), n)

\* durations of the calibration write: within the budget, and beyond it
CalibTimes == {Ms(1000), Ms(4000)}

\* durations of one writer thread's WriteTestFile (ten writes take time: > 0)
ThreadTimes == {Ms(1000), Ms(4000)}

Threads == 0 .. MaxThreads - 1

NoFile == << >>

(***************************************************************************)
(* State.                                                                  *)
(***************************************************************************)
VARIABLES
    pc,                \* where TestDrive / TestDriveWrite (the driver) stands
    portionSize,       \* portion.size()
    lastWriteTime,     \* lastWriteTime (ns)
    lastSpeed,         \* lastSpeed (float)
    slowTests,         \* slowTests
    threadsCount,      \* threadsCount
    bad,               \* bad
    results,           \* results: the per-trial vector, index 0 .. threadsCount-1
    i,                 \* the index of the driver's launch loop and join loop
    currentWriteTime,  \* currentWriteTime (ns)
    tpc,               \* each writer thread: "none", "ready", "writing", "done", "failed"
    tfile,             \* the file each writer thread has open (NoFile: none)
    ret,               \* what TestDriveWrite returned
    readArg,           \* maxThreadsTested given to TestDriveRead (0: not called)
    ttrial,            \* history: the threadsCount of the trial a thread was launched in
    twritten,          \* history: the size of the blocks a finished thread wrote
    opened,            \* history: the files opened for writing so far
    speeds,            \* history: calibration throughput, then one per finished trial
    trialLog,          \* history: the number of threads launched, per trial
    wpc,               \* one call of WriteTestFile followed step by step: where it stands
    file,              \* its FILE* file: "null", "open", or "closed" (after fclose)
    wi,                \* the index i of its write loop
    m_start,           \* watch.m_start
    res,               \* auto res = watch.Stop()
    now,               \* what high_resolution_clock::now() reads
    written,           \* history: the bytes each fwrite of the call transferred
    fcloses,           \* history: the number of fclose calls of the call
    thrown             \* the runtime_error the call threw (<< >>: none)

vars == <<pc, portionSize, lastWriteTime, lastSpeed, slowTests, threadsCount, bad,
          results, i, currentWriteTime, tpc, tfile, ret, readArg, ttrial, twritten,
          opened, speeds, trialLog,
          wpc, file, wi, m_start, res, now, written, fcloses, thrown>>

\* the frame of the WriteTestFile call that is followed step by step
writeVars == <<wpc, file, wi, m_start, res, now, written, fcloses, thrown>>

\* no such call is under way
WriteIdle ==
    /\ wpc = "idle"
    /\ file = "null"
    /\ wi = 0
    /\ m_start = 0
    /\ res = 0
    /\ now = 0
    /\ written = << >>
    /\ fcloses = 0
    /\ thrown = << >>

driverVars == <<portionSize, lastWriteTime, lastSpeed, slowTests, threadsCount,
                results, i, currentWriteTime, ret, readArg, speeds, trialLog>>

Init ==
    /\ pc = "start"
    /\ portionSize = 0
    /\ lastWriteTime = << >>
    /\ lastSpeed = FZero
    /\ slowTests = 0
    /\ threadsCount = 0
    /\ bad = FALSE
    /\ results = << >>
    /\ i = 0
    /\ currentWriteTime = << >>
    /\ tpc = [k \in Threads |-> "none"]
    /\ tfile = [k \in Threads |-> NoFile]
    /\ ret = 0
    /\ readArg = 0
    /\ ttrial = [k \in Threads |-> 0]
    /\ twritten = [k \in Threads |-> 0]
    /\ opened = {}
    /\ speeds = << >>
    /\ trialLog = << >>
    /\ WriteIdle

(***************************************************************************)
(* The driver: TestDrive -> TestDriveWrite.                                *)
(***************************************************************************)
\* Portion portion; InitPortionWithRandomData(portion);
InitPortionWithRandomData ==
    /\ pc = "start"
    /\ portionSize' = g_portionSize
    /\ pc' = "calibrate"
    /\ UNCHANGED <<lastWriteTime, lastSpeed, slowTests, threadsCount, bad, results, i,
                   currentWriteTime, tpc, tfile, ret, readArg, ttrial, twritten,
                   opened, speeds, trialLog>>
    /\ UNCHANGED writeVars

\* TestDriveWriteFirst returns, then lastSpeed, slowTests = 0, threadsCount = 2,
\* bad = false
TestDriveWriteFirst(ns) ==
    /\ pc = "calibrate"
    /\ opened' = opened \cup {SingleThreadName}
    /\ portionSize' = CalibratedSize(portionSize, ns)
    /\ lastWriteTime' = ns
    /\ lastSpeed' = CalculateSpeed(portionSize', 1, ns)
    /\ slowTests' = 0
    /\ threadsCount' = 2
    /\ bad' = FALSE
    /\ speeds' = <<lastSpeed'>>
    /\ pc' = "loop"
    /\ UNCHANGED <<results, i, currentWriteTime, tpc, tfile, ret, readArg, ttrial,
                   twritten, trialLog>>
    /\ UNCHANGED writeVars

\* a failed calibration that TestDriveWrite swallows, returning 0
CalibrationThrows_Swallowed(created) ==
    /\ pc = "calibrate"
    /\ opened' = IF created THEN opened \cup {SingleThreadName} ELSE opened
    /\ ret' = 0
    /\ pc' = "returned"
    /\ UNCHANGED <<portionSize, lastWriteTime, lastSpeed, slowTests, threadsCount, bad,
                   results, i, currentWriteTime, tpc, tfile, readArg, ttrial,
                   twritten, speeds, trialLog>>
    /\ UNCHANGED writeVars

\* WriteTestFile of the calibration throws, at fopen_s (single_thread was not
\* created) or at a short fwrite (it was): nothing in TestDriveWriteFirst or
\* TestDriveWrite catches it, TestDrive's catch logs it, TestDriveRead is skipped
CalibrationThrows(created) ==
    /\ pc = "calibrate"
    /\ opened' = IF created THEN opened \cup {SingleThreadName} ELSE opened
    /\ pc' = "caught"
    /\ UNCHANGED <<portionSize, lastWriteTime, lastSpeed, slowTests, threadsCount, bad,
                   results, i, currentWriteTime, tpc, tfile, ret, readArg, ttrial,
                   twritten, speeds, trialLog>>
    /\ UNCHANGED writeVars

\* while (slowTests < g_maxSlowTests) holds: results(threadsCount), threads
LoopEnter ==
    /\ pc = "loop"
    /\ slowTests < g_maxSlowTests
    /\ threadsCount <= MaxThreads
    /\ results' = [k \in 0 .. threadsCount - 1 |-> << >>]
    /\ i' = 0
    /\ pc' = "spawn"
    /\ UNCHANGED <<portionSize, lastWriteTime, lastSpeed, slowTests, threadsCount, bad,
                   currentWriteTime, tpc, tfile, ret, readArg, ttrial, twritten,
                   opened, speeds, trialLog>>
    /\ UNCHANGED writeVars

\* a loop that is left only when slowTests exceeds g_maxSlowTests
LoopExit_Exceeds ==
    /\ pc = "loop"
    /\ ~(slowTests <= g_maxSlowTests)
    /\ ret' = ReturnAfterLoop(threadsCount)
    /\ pc' = "returned"
    /\ UNCHANGED <<portionSize, lastWriteTime, lastSpeed, slowTests, threadsCount, bad,
                   results, i, currentWriteTime, tpc, tfile, readArg, ttrial, twritten,
                   opened, speeds, trialLog>>
    /\ UNCHANGED writeVars

\* while (slowTests < g_maxSlowTests) fails: return threadsCount - 1
LoopExit ==
    /\ pc = "loop"
    /\ ~(slowTests < g_maxSlowTests)
    /\ ret' = ReturnAfterLoop(threadsCount)
    /\ pc' = "returned"
    /\ UNCHANGED <<portionSize, lastWriteTime, lastSpeed, slowTests, threadsCount, bad,
                   results, i, currentWriteTime, tpc, tfile, readArg, ttrial, twritten,
                   opened, speeds, trialLog>>
    /\ UNCHANGED writeVars

\* one round of the launch loop: threads.push_back(std::thread(..., i)); after the
\* last one, currentWriteTime = 0 and the join loop starts
Launch ==
    /\ pc = "spawn"
    /\ i < threadsCount
    /\ tpc' = [tpc EXCEPT ![i] = "ready"]
    /\ ttrial' = [ttrial EXCEPT ![i] = threadsCount]
    /\ twritten' = [twritten EXCEPT ![i] = 0]
    /\ IF i + 1 < threadsCount
       THEN /\ i' = i + 1
            /\ UNCHANGED <<pc, currentWriteTime, trialLog>>
       ELSE /\ i' = 0
            /\ currentWriteTime' = << >>
            /\ trialLog' = Append(trialLog, i + 1)
            /\ pc' = "join"
    /\ UNCHANGED <<portionSize, lastWriteTime, lastSpeed, slowTests, threadsCount, bad,
                   results, tfile, ret, readArg, opened, speeds>>
    /\ UNCHANGED writeVars

\* a join that does not wait
Joinable_NoWait(k) == TRUE

\* whether threads[k].join() returns: the thread has run to its end
Joinable(k) == tpc[k] \in {"done", "failed"}

\* a join loop that stops after threads[0]
Join_OnlyFirst ==
    /\ pc = "join"
    /\ i < threadsCount
    /\ Joinable(i)
    /\ currentWriteTime' = Wrap64(BAdd(currentWriteTime, results[i]))
    /\ i' = 0 /\ pc' = "check"
    /\ UNCHANGED <<portionSize, lastWriteTime, lastSpeed, slowTests, threadsCount, bad,
                   results, tpc, tfile, ret, readArg, ttrial, twritten, opened, speeds,
                   trialLog>>
    /\ UNCHANGED writeVars

\* one round of the join loop: threads[i].join(); currentWriteTime += results[i]
Join ==
    /\ pc = "join"
    /\ i < threadsCount
    /\ Joinable(i)
    /\ currentWriteTime' = Wrap64(BAdd(currentWriteTime, results[i]))
    /\ IF i + 1 < threadsCount
       THEN i' = i + 1 /\ pc' = pc
       ELSE i' = 0 /\ pc' = "check"
    /\ UNCHANGED <<portionSize, lastWriteTime, lastSpeed, slowTests, threadsCount, bad,
                   results, tpc, tfile, ret, readArg, ttrial, twritten, opened, speeds,
                   trialLog>>
    /\ UNCHANGED writeVars

\* if (bad) return threadsCount;
ReturnBad ==
    /\ pc = "check"
    /\ bad
    /\ ret' = ReturnOnBad(threadsCount)
    /\ pc' = "returned"
    /\ UNCHANGED <<portionSize, lastWriteTime, lastSpeed, slowTests, threadsCount, bad,
                   results, i, currentWriteTime, tpc, tfile, readArg, ttrial, twritten,
                   opened, speeds, trialLog>>
    /\ UNCHANGED writeVars

\* a loop body that derives the block size again from the trial's average
Aggregate_Recalibrate ==
    /\ pc = "check"
    /\ ~bad
    /\ LET average      == BDivS(currentWriteTime, threadsCount)
           currentSpeed == CalculateSpeed(portionSize, threadsCount, average)
       IN  /\ currentWriteTime' = average
           /\ portionSize' = CalibratedSize(portionSize, average)
           /\ slowTests' = NextSlowTests(slowTests, currentSpeed, lastSpeed)
           /\ lastSpeed' = currentSpeed
           /\ speeds' = Append(speeds, currentSpeed)
    /\ threadsCount' = threadsCount + 1
    /\ pc' = "loop"
    /\ UNCHANGED <<lastWriteTime, bad, results, i, tpc, tfile, ret,
                   readArg, ttrial, twritten, opened, trialLog>>
    /\ UNCHANGED writeVars

\* a loop body that keeps the best throughput seen so far in lastSpeed
Aggregate_KeepBest ==
    /\ pc = "check"
    /\ ~bad
    /\ LET average      == BDivS(currentWriteTime, threadsCount)
           currentSpeed == CalculateSpeed(portionSize, threadsCount, average)
       IN  /\ currentWriteTime' = average
           /\ slowTests' = NextSlowTests(slowTests, currentSpeed, lastSpeed)
           /\ lastSpeed' = IF FLess(currentSpeed, lastSpeed) THEN lastSpeed
                                                             ELSE currentSpeed
           /\ speeds' = Append(speeds, currentSpeed)
    /\ threadsCount' = threadsCount + 1
    /\ pc' = "loop"
    /\ UNCHANGED <<portionSize, lastWriteTime, bad, results, i, tpc, tfile, ret,
                   readArg, ttrial, twritten, opened, trialLog>>
    /\ UNCHANGED writeVars

\* the rest of the loop body: the average, the speed, slowTests, lastSpeed,
\* ++threadsCount.  (Every thread's duration is > 0, so the average is > 0.)
Aggregate ==
    /\ pc = "check"
    /\ ~bad
    /\ LET average      == BDivS(currentWriteTime, threadsCount)
           currentSpeed == CalculateSpeed(portionSize, threadsCount, average)
       IN  /\ currentWriteTime' = average
           /\ slowTests' = NextSlowTests(slowTests, currentSpeed, lastSpeed)
           /\ lastSpeed' = currentSpeed
           /\ speeds' = Append(speeds, currentSpeed)
    /\ threadsCount' = threadsCount + 1
    /\ pc' = "loop"
    /\ UNCHANGED <<portionSize, lastWriteTime, bad, results, i, tpc, tfile, ret,
                   readArg, ttrial, twritten, opened, trialLog>>
    /\ UNCHANGED writeVars

\* TestDrive: TestDriveRead(dirPath, maxThreadsTested), which does nothing
TestDriveRead ==
    /\ pc = "returned"
    /\ readArg' = ret
    /\ pc' = "done"
    /\ UNCHANGED <<portionSize, lastWriteTime, lastSpeed, slowTests, threadsCount, bad,
                   results, i, currentWriteTime, tpc, tfile, ret, ttrial, twritten,
                   opened, speeds, trialLog>>
    /\ UNCHANGED writeVars

(***************************************************************************)
(* Writer thread k: the lambda around WriteTestFile.                       *)
(***************************************************************************)
\* fopen_s succeeds on dirPath / GetFileNameForThread(threadNumber)
ThreadOpen(k) ==
    /\ tpc[k] = "ready"
    /\ tfile' = [tfile EXCEPT ![k] = GetFileNameForThread(k)]
    /\ opened' = opened \cup {GetFileNameForThread(k)}
    /\ tpc' = [tpc EXCEPT ![k] = "writing"]
    /\ UNCHANGED <<pc, bad, ttrial, twritten>>
    /\ UNCHANGED driverVars
    /\ UNCHANGED writeVars

\* a catch block that only logs
ThreadOpenFails_NoFlag(k) ==
    /\ tpc[k] = "ready"
    /\ tpc' = [tpc EXCEPT ![k] = "failed"]
    /\ UNCHANGED <<pc, portionSize, lastWriteTime, lastSpeed, slowTests, threadsCount,
                   results, i, currentWriteTime, tfile, ret, readArg, ttrial, twritten,
                   opened, speeds, trialLog, bad>>
    /\ UNCHANGED writeVars

\* fopen_s fails: WriteTestFile throws, the lambda catches: bad = true.
\* bad is a plain bool that failing threads store to without synchronization;
\* every such store writes true, so whatever the order true is what is stored,
\* and the driver reads it only after join() has ordered the stores before it.
ThreadOpenFails(k) ==
    /\ tpc[k] = "ready"
    /\ bad' = TRUE
    /\ tpc' = [tpc EXCEPT ![k] = "failed"]
    /\ UNCHANGED <<pc, portionSize, lastWriteTime, lastSpeed, slowTests, threadsCount,
                   results, i, currentWriteTime, tfile, ret, readArg, ttrial, twritten,
                   opened, speeds, trialLog>>
    /\ UNCHANGED writeVars

\* the ten fwrite succeed, watch.Stop(), fclose; results[threadNumber] = duration
ThreadWrite(k, ns) ==
    /\ tpc[k] = "writing"
    /\ results' = [results EXCEPT ![k] = ns]
    /\ twritten' = [twritten EXCEPT ![k] = portionSize]
    /\ tfile' = [tfile EXCEPT ![k] = NoFile]
    /\ tpc' = [tpc EXCEPT ![k] = "done"]
    /\ UNCHANGED <<pc, portionSize, lastWriteTime, lastSpeed, slowTests, threadsCount,
                   bad, i, currentWriteTime, ret, readArg, ttrial, opened, speeds,
                   trialLog>>
    /\ UNCHANGED writeVars

\* an fwrite is short: fclose, WriteTestFile throws, the lambda catches: bad = true
ThreadWriteFails(k) ==
    /\ tpc[k] = "writing"
    /\ bad' = TRUE
    /\ tfile' = [tfile EXCEPT ![k] = NoFile]
    /\ tpc' = [tpc EXCEPT ![k] = "failed"]
    /\ UNCHANGED <<pc, portionSize, lastWriteTime, lastSpeed, slowTests, threadsCount,
                   results, i, currentWriteTime, ret, readArg, ttrial, twritten, opened,
                   speeds, trialLog>>
    /\ UNCHANGED writeVars

Next ==
    \/ InitPortionWithRandomData
    \/ \E ns \in CalibTimes : TestDriveWriteFirst(ns)
    \/ \E created \in BOOLEAN : CalibrationThrows(created)
    \/ LoopEnter
    \/ LoopExit
    \/ Launch
    \/ Join
    \/ ReturnBad
    \/ Aggregate
    \/ TestDriveRead
    \/ \E k \in Threads : ThreadOpen(k)
    \/ \E k \in Threads : ThreadOpenFails(k)
    \/ \E k \in Threads : \E ns \in ThreadTimes : ThreadWrite(k, ns)
    \/ \E k \in Threads : ThreadWriteFails(k)

Spec == Init /\ [][Next]_vars

(***************************************************************************)
(* TestDriveWriteFirst as a function of the Block size and of the duration *)
(* of the calibration write: the same step, from every size and duration   *)
(* of a sample that brackets the 2.0 s budget.                             *)
(***************************************************************************)
ProbeSizes == {1, 3, 100, 1000, 16777219, g_portionSize}

ProbeTimes ==
    {BN(0), BN(1), Ms(1), Ms(1000), Ms(1999), Ms(2000),
     BAdd(Ms(2000), BN(1)), BAdd(Ms(2000), BN(64)), BAdd(Ms(2000), BN(65)),
     BAdd(Ms(2000), BN(128)), Ms(2001), Ms(2500), Ms(3000), Ms(4000), Ms(4470),
     Ms(7000), Ms(10000), Ms(60000), BMulS(Ms(100000), 10), BMulS(Ms(100000), 3600)}

InitProbe ==
    /\ pc = "calibrate"
    /\ portionSize \in ProbeSizes
    /\ lastWriteTime = << >>
    /\ lastSpeed = FZero
    /\ slowTests = 0
    /\ threadsCount = 0
    /\ bad = FALSE
    /\ results = << >>
    /\ i = 0
    /\ currentWriteTime = << >>
    /\ tpc = [k \in Threads |-> "none"]
    /\ tfile = [k \in Threads |-> NoFile]
    /\ ret = 0
    /\ readArg = 0
    /\ ttrial = [k \in Threads |-> 0]
    /\ twritten = [k \in Threads |-> 0]
    /\ opened = {}
    /\ speeds = << >>
    /\ trialLog = << >>
    /\ WriteIdle

NextProbe == \E ns \in ProbeTimes : TestDriveWriteFirst(ns)

SpecProbe == InitProbe /\ [][NextProbe]_vars

(***************************************************************************)
(* The first trial of the sweep as a function of the duration of the       *)
(* calibration write and of the durations of its two writer threads: the   *)
(* driver after the join loop of the 2-thread trial, for every combination *)
(* of a sample of durations, and the rest of the loop body from there.     *)
(***************************************************************************)
\* durations of the calibration write: 1 s, 3 s, 7 s, 4000 s
TrialCalibTimes == {Ms(1000), Ms(3000), Ms(7000), BMulS(Ms(100000), 40)}

\* durations of a writer thread's WriteTestFile
TrialThreadTimes == {Ms(500), Ms(1000), Ms(1500), Ms(2000), Ms(3000)}

InitTrial ==
    \E t0 \in TrialCalibTimes : \E d \in [0 .. 1 -> TrialThreadTimes] :
        /\ pc = "check"
        /\ portionSize = CalibratedSize(g_portionSize, t0)
        /\ lastWriteTime = t0
        /\ lastSpeed = CalculateSpeed(portionSize, 1, t0)
        /\ slowTests = 0
        /\ threadsCount = 2
        /\ bad = FALSE
        /\ results = d
        /\ i = 0
        /\ currentWriteTime = Wrap64(BAdd(d[0], d[1]))
        /\ tpc = [k \in Threads |-> IF k < 2 THEN "done" ELSE "none"]
        /\ tfile = [k \in Threads |-> NoFile]
        /\ ret = 0
        /\ readArg = 0
        /\ ttrial = [k \in Threads |-> IF k < 2 THEN 2 ELSE 0]
        /\ twritten = [k \in Threads |-> IF k < 2 THEN portionSize ELSE 0]
        /\ opened = {SingleThreadName, GetFileNameForThread(0), GetFileNameForThread(1)}
        /\ speeds = <<lastSpeed>>
        /\ trialLog = <<2>>
        /\ WriteIdle

NextTrial == Aggregate

SpecTrial == InitTrial /\ [][NextTrial]_vars

(***************************************************************************)
(* WriteTestFile, one call followed statement by statement (the sweep's    *)
(* ThreadOpen .. ThreadWriteFails are the same call taken in two steps).   *)
(* portionSize is portion.size() of the Block it is given.  Time passes in *)
(* fopen_s, fwrite and fclose; high_resolution_clock does not run          *)
(* backwards (it is steady_clock in the runtime that has fopen_s).         *)
(***************************************************************************)
\* what the clock can advance by during one library call
Elapse == {0, 1}

\* fopen_s succeeds: err == 0 and file != nullptr
Fopen(d) ==
    /\ wpc = "fopen"
    /\ file' = "open"
    /\ now' = now + d
    /\ wpc' = "watch"
    /\ UNCHANGED <<wi, m_start, res, written, fcloses, thrown>>
    /\ UNCHANGED <<pc, bad, tpc, tfile, ttrial, twritten, opened>>
    /\ UNCHANGED driverVars

\* fopen_s fails: err != 0 || file == nullptr, throw "Failed to create file"
FopenFails(d) ==
    /\ wpc = "fopen"
    /\ now' = now + d
    /\ thrown' = <<"Failed to create file">>
    /\ wpc' = "thrown"
    /\ UNCHANGED <<file, wi, m_start, res, written, fcloses>>
    /\ UNCHANGED <<pc, bad, tpc, tfile, ttrial, twritten, opened>>
    /\ UNCHANGED driverVars

\* StopWatch watch: the constructor calls Start(); then auto i = 0
Start ==
    /\ wpc = "watch"
    /\ m_start' = now
    /\ wi' = 0
    /\ wpc' = "loop"
    /\ UNCHANGED <<file, res, now, written, fcloses, thrown>>
    /\ UNCHANGED <<pc, bad, tpc, tfile, ttrial, twritten, opened>>
    /\ UNCHANGED driverVars

\* a short write that is ignored: the loop goes on with the next index
FwriteShort_Continue(n, d) ==
    /\ wpc = "loop"
    /\ wi < g_portionsCount
    /\ n < portionSize
    /\ written' = Append(written, n)
    /\ now' = now + d
    /\ wi' = wi + 1
    /\ UNCHANGED <<wpc, file, m_start, res, fcloses, thrown>>
    /\ UNCHANGED <<pc, bad, tpc, tfile, ttrial, twritten, opened>>
    /\ UNCHANGED driverVars

\* a short write that throws with the file left open
FwriteShort_NoClose(n, d) ==
    /\ wpc = "loop"
    /\ wi < g_portionsCount
    /\ n < portionSize
    /\ written' = Append(written, n)
    /\ now' = now + d
    /\ thrown' = <<"Failed to write portion">> \o to_string(wi)
    /\ wpc' = "thrown"
    /\ UNCHANGED <<file, wi, m_start, res, fcloses>>
    /\ UNCHANGED <<pc, bad, tpc, tfile, ttrial, twritten, opened>>
    /\ UNCHANGED driverVars

\* i < g_portionsCount, fwrite transfers n bytes, res != portion.size():
\* fclose(file), throw "Failed to write portion <i>"
FwriteShort(n, d) ==
    /\ wpc = "loop"
    /\ wi < g_portionsCount
    /\ n < portionSize
    /\ written' = Append(written, n)
    /\ now' = now + d
    /\ file' = "closed"
    /\ fcloses' = fcloses + 1
    /\ thrown' = <<"Failed to write portion">> \o to_string(wi)
    /\ wpc' = "thrown"
    /\ UNCHANGED <<wi, m_start, res>>
    /\ UNCHANGED <<pc, bad, tpc, tfile, ttrial, twritten, opened>>
    /\ UNCHANGED driverVars

\* i < g_portionsCount, fwrite transfers portion.size() bytes; ++i
Fwrite(d) ==
    /\ wpc = "loop"
    /\ wi < g_portionsCount
    /\ written' = Append(written, portionSize)
    /\ now' = now + d
    /\ wi' = wi + 1
    /\ UNCHANGED <<wpc, file, m_start, res, fcloses, thrown>>
    /\ UNCHANGED <<pc, bad, tpc, tfile, ttrial, twritten, opened>>
    /\ UNCHANGED driverVars

\* i < g_portionsCount fails; auto res = watch.Stop(): now() - m_start
Stop ==
    /\ wpc = "loop"
    /\ ~(wi < g_portionsCount)
    /\ res' = now - m_start
    /\ wpc' = "fclose"
    /\ UNCHANGED <<file, wi, m_start, now, written, fcloses, thrown>>
    /\ UNCHANGED <<pc, bad, tpc, tfile, ttrial, twritten, opened>>
    /\ UNCHANGED driverVars

\* an fclose followed by a second reading of the watch
Fclose_Restop(d) ==
    /\ wpc = "fclose"
    /\ file' = "closed"
    /\ fcloses' = fcloses + 1
    /\ now' = now + d
    /\ res' = now' - m_start
    /\ wpc' = "returned"
    /\ UNCHANGED <<wi, m_start, written, thrown>>
    /\ UNCHANGED <<pc, bad, tpc, tfile, ttrial, twritten, opened>>
    /\ UNCHANGED driverVars

\* fclose(file); return res
Fclose(d) ==
    /\ wpc = "fclose"
    /\ file' = "closed"
    /\ fcloses' = fcloses + 1
    /\ now' = now + d
    /\ wpc' = "returned"
    /\ UNCHANGED <<wi, m_start, res, written, thrown>>
    /\ UNCHANGED <<pc, bad, tpc, tfile, ttrial, twritten, opened>>
    /\ UNCHANGED driverVars

\* the Block sizes the call is followed with (Scenario A: 1000 bytes)
WriteSizes == {0, 1, 3, 1000, g_portionSize}

\* the byte counts a short fwrite is followed with (those below portion.size())
ShortCounts == {0, 2, 999, g_portionSize - 1}

\* WriteTestFile is called for single_thread, with a Block of any of the sizes,
\* at any of two readings of the clock
InitWrite ==
    /\ pc = "calibrate"
    /\ portionSize \in WriteSizes
    /\ lastWriteTime = << >>
    /\ lastSpeed = FZero
    /\ slowTests = 0
    /\ threadsCount = 0
    /\ bad = FALSE
    /\ results = << >>
    /\ i = 0
    /\ currentWriteTime = << >>
    /\ tpc = [k \in Threads |-> "none"]
    /\ tfile = [k \in Threads |-> NoFile]
    /\ ret = 0
    /\ readArg = 0
    /\ ttrial = [k \in Threads |-> 0]
    /\ twritten = [k \in Threads |-> 0]
    /\ opened = {}
    /\ speeds = << >>
    /\ trialLog = << >>
    /\ wpc = "fopen"
    /\ file = "null"
    /\ wi = 0
    /\ m_start = 0
    /\ res = 0
    /\ now \in {0, 7}
    /\ written = << >>
    /\ fcloses = 0
    /\ thrown = << >>

NextWrite ==
    \/ \E d \in Elapse : Fopen(d)
    \/ \E d \in Elapse : FopenFails(d)
    \/ Start
    \/ \E d \in Elapse : Fwrite(d)
    \/ \E d \in Elapse : \E n \in ShortCounts : FwriteShort(n, d)
    \/ Stop
    \/ \E d \in Elapse : Fclose(d)

SpecWrite == InitWrite /\ [][NextWrite]_vars

(***************************************************************************)
(* Vocabulary of the properties.                                           *)
(***************************************************************************)
\* TestDriveWrite has returned a value
Returned == pc \in {"returned", "done"}

\* the driver is inside the body of the sweep loop
InTrial == pc \in {"spawn", "join", "check"}

\* in the throughput sequence s, trial k is strictly slower than its predecessor
\* (s[1] is the calibration trial, s[k] the trial with k threads)
Slower(s, k) == k >= 2 /\ k <= Len(s) /\ FLess(s[k], s[k - 1])

\* trial k is the second of two consecutive slower trials
TwoSlow(s, k) == Slower(s, k) /\ Slower(s, k - 1)

HasTwoSlow(s) == \E k \in 1 .. Len(s) : TwoSlow(s, k)

\* writer thread k has been launched and has not run to its end
Running(k) == tpc[k] \in {"ready", "writing"}

\* writer thread k has run to its end: WriteTestFile returned, or threw and the
\* lambda caught it
Terminated(k) == tpc[k] \in {"done", "failed"}

\* a writer thread of the current trial has failed
TrialFailed == \E k \in Threads : k < threadsCount /\ tpc[k] = "failed"

\* all the threads of the current trial have been launched and have ended
AllTerminated ==
    /\ Len(trialLog) > 0 /\ trialLog[Len(trialLog)] = threadsCount
    /\ \A k \in Threads : k < threadsCount => (Terminated(k) /\ ttrial[k] = threadsCount)

\* the name "thread<n>", for n < 100, written out
ThreadFile(n) ==
    LET d == <<"0", "1", "2", "3", "4", "5", "6", "7", "8", "9">>
    IN  IF n < 10 THEN <<"thread", d[n + 1]>>
        ELSE <<"thread", d[(n \div 10) + 1], d[(n % 10) + 1]>>

\* exact arithmetic on naturals of any size, to state bounds with
RECURSIVE BMulFrom(_, _, _)
BMulFrom(a, b, j) ==
    IF j > Len(b) THEN << >>
    ELSE BAdd(BMulS(a, b[j]), <<0>> \o BMulFrom(a, b, j + 1))

\* a * b
BMul(a, b) == BTrim(BMulFrom(a, b, 1))

RECURSIVE BLessFrom(_, _, _)
BLessFrom(a, b, j) ==
    IF j = 0 THEN FALSE
    ELSE IF a[j] # b[j] THEN a[j] < b[j]
    ELSE BLessFrom(a, b, j - 1)

\* a < b (both canonical)
BLess(a, b) ==
    IF Len(a) # Len(b) THEN Len(a) < Len(b) ELSE BLessFrom(a, b, Len(a))

BLeq(a, b) == a = b \/ BLess(a, b)

\* the 2.0 s budget, in nanoseconds
BudgetNs == Ms(2000)

\* r = floor(S * 2.0 / t), for t in nanoseconds: r * t <= S * 2e9 < (r + 1) * t
IsFloorOfShrink(r, S, t) ==
    LET target == BMul(BN(S), BudgetNs)
    IN  /\ BLeq(BMul(BN(r), t), target)
        /\ BLess(target, BMul(BN(r + 1), t))

\* | r - S * 2.0 / t | <= S / 2^21 + 1, multiplied out by 2^21 * t
NearShrink(r, S, t) ==
    LET target == BMulS(BMul(BN(S), BudgetNs), 2^15)
        got    == BMulS(BMul(BN(r), t), 2^15)
        slack  == BMul(BAdd(BN(S), BN(2^21)), t)
    IN  /\ BLeq(BMulS(got, 2^6), BAdd(BMulS(target, 2^6), slack))
        /\ BLeq(BMulS(target, 2^6), BAdd(BMulS(got, 2^6), slack))

\* any step of writer thread k
ThreadStep(k) ==
    \/ ThreadOpen(k)
    \/ ThreadOpenFails(k)
    \/ \E ns \in ThreadTimes : ThreadWrite(k, ns)
    \/ ThreadWriteFails(k)

(***************************************************************************)
(* C1.  With no failed trial, TestDriveWrite leaves the sweep loop exactly *)
(* after the first trial that is the second of two consecutive trials each *)
(* strictly slower than its predecessor: it has not returned before such a *)
(* trial, it starts no trial after one, and it returns threadsCount - 1    *)
(* for the threadsCount incremented after that last trial, which is the    *)
(* thread count of that trial.                                             *)
(***************************************************************************)
C1_StopsAtFirstTwoSlow ==
    ~bad =>
        /\ Returned =>
               LET n == Len(speeds)
               IN  /\ TwoSlow(speeds, n)
                   /\ \A k \in 1 .. n - 1 : ~TwoSlow(speeds, k)
                   /\ threadsCount = n + 1
                   /\ ret = threadsCount - 1
                   /\ trialLog[Len(trialLog)] = ret
        /\ InTrial => ~HasTwoSlow(speeds)
        /\ pc = "loop" =>
               /\ HasTwoSlow(speeds) <=> ENABLED LoopExit
               /\ HasTwoSlow(speeds) => ~ENABLED LoopEnter

\* the 2-thread trial was not slower, the next two were: the sweep stopped after
\* the 4-thread trial and returned 4
C1_Witness ==
    /\ pc = "returned" /\ ~bad
    /\ Len(speeds) = 4 /\ ret = 4
    /\ ~Slower(speeds, 2)

(***************************************************************************)
(* C2.  Scenario C: the calibration trial, the 2-thread trial and the      *)
(* 3-thread trial have strictly decreasing throughputs (as 100, 90, 80)    *)
(* and no trial fails.  The stopping rule reads throughputs only through   *)
(* currentSpeed < lastSpeed, so the scenario is every run with that order. *)
(***************************************************************************)
ScenarioC == ~bad /\ Len(speeds) >= 3 /\ Slower(speeds, 2) /\ Slower(speeds, 3)

\* C2 as stated: the sweep stops after the 3-thread trial and reports 2
C2_ScenarioC_Reports2 ==
    (ScenarioC /\ Returned) => (Len(speeds) = 3 /\ ret = 2)

\* C2, amended: in Scenario C the sweep stops after the 3-thread trial (no
\* 4-thread trial is started) and TestDriveWrite reports 3
C2_ScenarioC_Reports3 ==
    ScenarioC =>
        /\ Len(speeds) = 3
        /\ trialLog = <<2, 3>>
        /\ pc \in {"loop", "returned", "done"}
        /\ Returned => ret = 3

C2_Witness == ScenarioC /\ pc = "returned"

(***************************************************************************)
(* C3.  If a writer thread of the trial with N threads fails, the sweep    *)
(* stops right after that trial's threads are joined: the driver's step    *)
(* after the join loop returns N = threadsCount without comparing          *)
(* throughputs or touching slowTests, lastSpeed and threadsCount, and no   *)
(* further trial is started.                                               *)
(***************************************************************************)
\* C3: a failed trial ends the sweep at once, with its own thread count
C3_FailedTrialStops ==
    /\ [][(pc = "check" /\ TrialFailed) =>
             /\ pc' = "returned"
             /\ ret' = threadsCount
             /\ UNCHANGED <<slowTests, lastSpeed, threadsCount, speeds, trialLog, tpc>>]_vars
    /\ [][(Returned /\ TrialFailed) =>
             UNCHANGED <<slowTests, lastSpeed, threadsCount, speeds, trialLog, tpc,
                         ret>>]_vars
    /\ []((Returned /\ TrialFailed) =>
             /\ ret = threadsCount
             /\ trialLog[Len(trialLog)] = ret
             /\ Len(speeds) = threadsCount - 1
             /\ \A k \in Threads : k < threadsCount => Terminated(k))

\* Scenario D: a writer thread of the 4-thread trial failed, 4 is reported
C3_Witness ==
    /\ pc = "returned" /\ TrialFailed
    /\ threadsCount = 4 /\ ret = 4
    /\ \E k \in 0 .. 3 : tpc[k] = "done"

(***************************************************************************)
(* C4.  After every successful trial, slowTests is its previous value plus *)
(* 1 if the trial's throughput is strictly lower than lastSpeed, and 0     *)
(* otherwise (also when equal), and threadsCount is 1 greater than it was  *)
(* for that trial; the trials run with 2, 3, 4, ... threads, none skipped  *)
(* or repeated.                                                            *)
(***************************************************************************)
C4_CounterAndThreadsCount ==
    /\ [][(pc = "check" /\ pc' = "loop") =>
             LET v == speeds'[Len(speeds')]
             IN  /\ Len(speeds') = Len(speeds) + 1
                 /\ slowTests' = (IF FLess(v, lastSpeed) THEN slowTests + 1 ELSE 0)
                 /\ threadsCount' = threadsCount + 1
                 /\ trialLog[Len(trialLog)] = threadsCount]_vars
    /\ [][threadsCount' # threadsCount =>
             (pc = "calibrate" \/ (pc = "check" /\ pc' = "loop"))]_vars
    /\ [](\A k \in 1 .. Len(trialLog) : trialLog[k] = k + 1)

\* a regression, then an equal throughput: the counter went from 1 back to 0
C4_Witness ==
    /\ pc = "loop"
    /\ Len(speeds) = 4
    /\ Slower(speeds, 3)
    /\ speeds[4] = speeds[3]
    /\ slowTests = 0
    /\ threadsCount = 5

(***************************************************************************)
(* C5.  In a trial with N threads, all N writer threads have been launched *)
(* and have run to their end before the driver examines bad, computes the  *)
(* average or decides to go on or stop.  A writer thread that fails sets   *)
(* bad within its own step and touches neither the driver nor any other    *)
(* thread: while the trial runs, every unfinished thread can still take    *)
(* its next step, and the driver can join every finished one.              *)
(***************************************************************************)
C5_AllJoinedBeforeDecision ==
    /\ [](pc = "check" => AllTerminated)
    /\ [][(InTrial /\ (ret' # ret \/ speeds' # speeds \/ slowTests' # slowTests
                        \/ threadsCount' # threadsCount \/ lastSpeed' # lastSpeed
                        \/ pc' \in {"loop", "returned"}))
            => AllTerminated]_vars
    /\ [][\A k \in Threads :
             (tpc[k] # "failed" /\ tpc'[k] = "failed") =>
                 /\ Running(k)
                 /\ bad'
                 /\ pc' = pc
                 /\ \A j \in Threads \ {k} : tpc'[j] = tpc[j]
                 /\ UNCHANGED driverVars]_vars
    /\ []((pc \in {"spawn", "join"} /\ bad) =>
             /\ \A k \in Threads : Running(k) => ENABLED ThreadStep(k)
             /\ (pc = "join" /\ Terminated(i)) => ENABLED Join)

\* a thread of the 3-thread trial has failed while another one is still
\* writing and the driver waits in the join loop
C5_Witness ==
    /\ pc = "join" /\ threadsCount = 3
    /\ tpc[0] = "failed" /\ tpc[1] = "writing" /\ tpc[2] = "done"
    /\ bad

(***************************************************************************)
(* C6.  Trials never overlap: every running writer thread belongs to the   *)
(* current trial, and none is running when the driver has left the join    *)
(* loop, is about to start the next trial, or has returned.                *)
(***************************************************************************)
C6_TrialsNeverOverlap ==
    \A k \in Threads :
        Running(k) =>
            /\ pc \in {"spawn", "join"}
            /\ k < threadsCount
            /\ ttrial[k] = threadsCount

\* the 3-thread trial is being launched: its first thread runs, and the threads
\* of the 2-thread trial have ended
C6_Witness ==
    /\ pc = "spawn" /\ threadsCount = 3 /\ i = 1
    /\ Running(0) /\ ttrial[0] = 3
    /\ Terminated(1) /\ ttrial[1] = 2

(***************************************************************************)
(* C7.  Within a trial, results[k] is written only by writer thread k, and *)
(* once; the driver reads results[k] only after thread k has ended, and    *)
(* reads bad only after all threads of the trial have ended; bad is only   *)
(* ever set to true, by a failing writer thread, so the driver reads true  *)
(* whenever a thread of the trial has failed.                              *)
(***************************************************************************)
C7_ResultsAndFlag ==
    /\ [][pc # "loop" =>
             \A k \in DOMAIN results :
                 results'[k] # results[k] =>
                     /\ tpc[k] = "writing" /\ tpc'[k] = "done"
                     /\ results[k] = << >>
                     /\ \A j \in DOMAIN results \ {k} : results'[j] = results[j]]_vars
    /\ [][(pc = "join" /\ (i' # i \/ pc' # pc)) =>
             (Terminated(i) /\ ttrial[i] = threadsCount /\ UNCHANGED results)]_vars
    /\ [](pc = "check" => AllTerminated)
    /\ [][bad' # bad =>
             (bad' /\ \E k \in Threads : Running(k) /\ tpc'[k] = "failed")]_vars
    /\ []((pc = "check" /\ TrialFailed) => bad)

\* two threads of a trial failed, a third one delivered its duration
C7_Witness ==
    /\ pc = "check" /\ bad /\ threadsCount = 3
    /\ tpc[0] = "failed" /\ tpc[1] = "done" /\ tpc[2] = "failed"
    /\ results[0] = << >> /\ results[1] # << >>

(***************************************************************************)
(* C8.  Writer thread k (0-based) has only the file thread<k+1> open, so   *)
(* the files of the running writers are pairwise distinct and none is the  *)
(* calibration file single_thread; the sweep opens only thread1..threadN.  *)
(***************************************************************************)
C8_OneFilePerThread ==
    /\ \A k \in Threads :
          /\ tfile[k] \in {NoFile, ThreadFile(k + 1)}
          /\ tfile[k] # <<"single_thread">>
          /\ tpc[k] = "writing" <=> tfile[k] # NoFile
    /\ \A j, k \in Threads :
          (j # k /\ tfile[j] # NoFile /\ tfile[k] # NoFile) => tfile[j] # tfile[k]
    /\ opened \subseteq
          {<<"single_thread">>} \cup {ThreadFile(n) : n \in 1 .. threadsCount}
    /\ (pc = "check" /\ \A k \in Threads : k < threadsCount => tpc[k] = "done") =>
          opened = {<<"single_thread">>} \cup {ThreadFile(n) : n \in 1 .. threadsCount}

\* all three writers of the 3-thread trial have their files open at once
C8_Witness ==
    /\ threadsCount = 3
    /\ \A k \in 0 .. 2 : tpc[k] = "writing" /\ tfile[k] # NoFile

(***************************************************************************)
(* C9.  Once calibration has returned, the size of the Block never changes *)
(* again: no step of the driver or of a writer thread changes it, and      *)
(* every writer thread of every trial writes blocks of that size.          *)
(***************************************************************************)
C9_BlockSizeFixed ==
    /\ [][pc \notin {"start", "calibrate"} => portionSize' = portionSize]_vars
    /\ [](\A k \in Threads : tpc[k] = "done" => twritten[k] = portionSize)
    /\ [][\A k \in Threads : tpc'[k] # tpc[k] => portionSize' = portionSize]_vars

\* calibration shrank the Block, and the 2-, 3- and 4-thread trials wrote it
C9_Witness ==
    /\ portionSize > 0 /\ portionSize < g_portionSize
    /\ pc = "check" /\ threadsCount = 4 /\ Len(speeds) = 3
    /\ \A k \in 0 .. 3 : tpc[k] = "done" /\ twritten[k] = portionSize

(***************************************************************************)
(* C10.  The block size after TestDriveWriteFirst, for the size S before   *)
(* it and the elapsed time t (ns) of the calibration write, which is the   *)
(* value returned (kept in lastWriteTime).  Checked under SpecProbe.       *)
(***************************************************************************)
\* C10 as stated: S if t <= 2.0 s, floor(S * 2.0 / t) if t > 2.0 s; never larger
\* than S, changed if and only if t > 2.0 s
C10_ShrinkIsFloor ==
    [][(pc = "calibrate" /\ pc' = "loop") =>
         LET S == portionSize
             t == lastWriteTime'
             r == portionSize'
         IN  /\ BLeq(t, BudgetNs) => r = S
             /\ BLess(BudgetNs, t) => IsFloorOfShrink(r, S, t)
             /\ r <= S
             /\ r # S <=> BLess(BudgetNs, t)]_vars

\* C10, amended: the size is S if t in single-precision seconds is <= 2.0, which
\* is so exactly for t <= 2.000000064 s (t = 0 included); for a longer t it is
\* the single-precision product (2.0 / seconds) * S truncated, which is smaller
\* than S and within S / 2^21 + 1 of S * 2.0 / t (t = 4.0 s, S = 100 gives 50),
\* and which can differ from floor(S * 2.0 / t) (t = 3.0 s, S = 104857600 gives
\* 69905072).  t itself is what is returned.
C10_ShrinkIsSinglePrecision ==
    [][(pc = "calibrate" /\ pc' = "loop") =>
         LET S == portionSize
             t == lastWriteTime'
             r == portionSize'
             kept == BLeq(t, BAdd(BudgetNs, BN(64)))
         IN  /\ kept => r = S
             /\ ~kept => (r < S /\ NearShrink(r, S, t))
             /\ (S = 100 /\ t = Ms(4000)) => r = 50
             /\ (S = g_portionSize /\ t = Ms(3000)) => r = 69905072
             /\ r <= S]_vars

\* Scenario B: 4.0 s, a Block of 100 bytes, shrunk to 50
C10_Witness ==
    /\ pc = "loop"
    /\ lastWriteTime = Ms(4000)
    /\ portionSize = 50

(***************************************************************************)
(* WriteTestFile (specification SpecWrite).                                *)
(***************************************************************************)
\* the call has returned its duration
WriteReturned == wpc = "returned"

\* the call has thrown
WriteThrown == wpc = "thrown"

\* the sum of a sequence of byte counts
RECURSIVE SumSeq(_)
SumSeq(q) == IF q = << >> THEN 0 ELSE q[1] + SumSeq(Tail(q))

\* the runtime_error of a short write of the portion with index k
ShortWriteError(k) == <<"Failed to write portion">> \o to_string(k)

(***************************************************************************)
(* C11: WriteTestFile releases its file handle on every exit path: once    *)
(* the call has returned or thrown, the handle is not open; a handle that  *)
(* was opened has been closed by exactly one fclose, and when the open     *)
(* failed there is no handle and no fclose.                                *)
(***************************************************************************)
C11_HandleReleased ==
    /\ fcloses <= 1
    /\ (file = "closed") <=> (fcloses = 1)
    /\ (WriteReturned \/ WriteThrown) =>
          /\ file # "open"
          /\ file = "null" <=> thrown = <<"Failed to create file">>
    /\ WriteReturned => file = "closed"

\* the write of portion 3 was short: the call threw, after its one fclose
C11_Witness ==
    /\ WriteThrown
    /\ thrown = ShortWriteError(3)
    /\ file = "closed"
    /\ fcloses = 1

(***************************************************************************)
(* C12.                                                                    *)
(***************************************************************************)
\* C12 as stated: the duration returned runs from the start of the stopwatch,
\* before the first write, to the clock just after the file is closed
C12_MeasuredThroughClose ==
    /\ wpc \in {"fopen", "watch"} => written = << >>
    /\ WriteReturned => res = now - m_start

\* C12, amended: the stopwatch is started after the file is opened and before
\* the first write, and it is read after the last of the ten writes and before
\* fclose, with the file still open; fclose does not change the duration, so
\* the time it takes is not part of what is returned
C12_MeasuredBeforeClose ==
    [][/\ (wpc = "watch" /\ wpc' = "loop") =>
              /\ m_start' = now
              /\ file = "open"
              /\ written = << >>
       /\ (wpc = "loop" /\ wpc' = "fclose") =>
              /\ res' = now - m_start
              /\ Len(written) = g_portionsCount
              /\ file = "open" /\ file' = "open"
       /\ (wpc = "fclose" /\ wpc' = "returned") =>
              /\ file = "open" /\ file' = "closed"
              /\ res' = res
              /\ res' <= now' - m_start]_vars

\* fclose took time, and the duration returned is shorter than the time from
\* the start of the stopwatch to the return
C12_Witness ==
    /\ WriteReturned
    /\ res > 0
    /\ res < now - m_start

(***************************************************************************)
(* C13: a successful WriteTestFile has issued exactly g_portionsCount      *)
(* writes of portion.size() bytes each, so size * 10 bytes, and returns a  *)
(* duration >= 0; after a failed open no write was issued; a short write   *)
(* of the portion with index k ends the call with the error naming k, the  *)
(* writes before it were complete and none follows it.                     *)
(***************************************************************************)
C13_TenWritesOrAbort ==
    /\ Len(written) <= g_portionsCount
    /\ WriteReturned =>
          /\ written = [k \in 1 .. g_portionsCount |-> portionSize]
          /\ SumSeq(written) = portionSize * g_portionsCount
          /\ res >= 0
          /\ thrown = << >>
    /\ thrown = <<"Failed to create file">> => written = << >>
    /\ (WriteThrown /\ thrown # <<"Failed to create file">>) =>
          \E k \in 0 .. g_portionsCount - 1 :
              /\ thrown = ShortWriteError(k)
              /\ Len(written) = k + 1
              /\ \A j \in 1 .. k : written[j] = portionSize
              /\ written[k + 1] < portionSize
    /\ ~(WriteReturned \/ WriteThrown) =>
          \A j \in 1 .. Len(written) : written[j] = portionSize

\* Scenario A: a Block of 1000 bytes, ten writes, 10000 bytes in the file
C13_Witness ==
    /\ WriteReturned
    /\ portionSize = 1000
    /\ Len(written) = 10
    /\ SumSeq(written) = 10000

(***************************************************************************)
(* The sweep with its scheduling: the driver is a sequential program that  *)
(* only ever waits in join(), and every writer thread runs until its       *)
(* WriteTestFile has returned or thrown.                                   *)
(***************************************************************************)
\* the steps of the driver that compute no throughput
DriverStep ==
    \/ InitPortionWithRandomData
    \/ \E created \in BOOLEAN : CalibrationThrows(created)
    \/ LoopEnter
    \/ LoopExit
    \/ Launch
    \/ Join
    \/ ReturnBad
    \/ TestDriveRead

\* TestDriveWriteFirst is possible exactly when pc = "calibrate" and Aggregate
\* exactly when pc = "check" and no thread has failed; both leave that condition
Computing == pc = "calibrate" \/ (pc = "check" /\ ~bad)

\* Weak fairness of the driver's steps and of every writer thread.  For the two
\* steps that compute a throughput, WF_vars(A) is written out as
\* []<>~(ENABLED <<A>>_vars), with the enabling condition Computing.
SpecFair ==
    /\ Init /\ [][Next]_vars
    /\ WF_vars(DriverStep)
    /\ \A k \in Threads : WF_vars(ThreadStep(k))
    /\ []<>~Computing

\* TestDrive has run to its end: after TestDriveRead, or in its catch block
Finished == pc \in {"done", "caught"}

\* the sweep is still going on where the model stops following it: the trials of
\* 2 .. MaxThreads threads have been run and the loop condition holds
SweepGoesOn ==
    /\ pc = "loop"
    /\ slowTests < g_maxSlowTests
    /\ threadsCount = MaxThreads + 1
    /\ trialLog = [n \in 1 .. MaxThreads - 1 |-> n + 1]

(***************************************************************************)
(* C14 (specification SpecFair: every writer thread eventually finishes):  *)
(* every run either comes to its end or is still sweeping after the trial  *)
(* of MaxThreads threads.  Once two consecutive trials were each strictly  *)
(* slower than the one before, the sweep cannot go on (only the return is  *)
(* left), so the run comes to its end; and TestDriveWrite returns only     *)
(* after a failed trial or after two such trials, so without either the    *)
(* sweep goes on, trial after trial, with ever larger thread counts.       *)
(***************************************************************************)
C14_StopsOnlyAfterTwoSlow ==
    /\ <>(Finished \/ SweepGoesOn)
    /\ [](HasTwoSlow(speeds) =>
             /\ slowTests = g_maxSlowTests
             /\ pc \in {"loop", "returned", "done"})
    /\ [](Returned => (bad \/ HasTwoSlow(speeds)))
    /\ [](SweepGoesOn => (~bad /\ ~HasTwoSlow(speeds)))

\* the 2- and the 3-thread trial were each slower than the trial before, no
\* trial failed, and TestDrive has run to its end
C14_Witness ==
    /\ pc = "done"
    /\ ~bad
    /\ TwoSlow(speeds, 3)
    /\ trialLog = <<2, 3>>

\* the calibration is over and has recorded no throughput: its write failed
CalibrationFailed == pc \notin {"start", "calibrate"} /\ speeds = << >>

(***************************************************************************)
(* C15: when the calibration write fails, the error reaches the catch      *)
(* block of TestDrive and the run stays there: TestDriveWrite has returned *)
(* nothing, no writer thread was or will be launched, no file thread<N> is *)
(* opened, and TestDriveRead is not called.                                *)
(***************************************************************************)
C15_CalibrationFailureEndsRun ==
    /\ [](CalibrationFailed =>
             /\ pc = "caught"
             /\ ret = 0 /\ readArg = 0
             /\ trialLog = << >>
             /\ \A k \in Threads : tpc[k] = "none" /\ ttrial[k] = 0 /\ tfile[k] = NoFile
             /\ opened \subseteq {SingleThreadName})
    /\ [][CalibrationFailed => CalibrationFailed']_vars

\* the calibration write was short: single_thread exists, TestDrive caught
C15_Witness == pc = "caught" /\ opened = {SingleThreadName}

\* the files that the writer threads launched so far were given as their target
Targeted == {GetFileNameForThread(k) : k \in {t \in Threads : ttrial[t] # 0}}

(***************************************************************************)
(* C16: when TestDriveWrite has returned M, the sweep has run exactly the  *)
(* trials of 2 .. M threads, the last one being the trial of M threads,    *)
(* and the files its writer threads were given are exactly thread1 ..      *)
(* threadM; these are the files the sweep opened, all of them unless a     *)
(* thread failed.                                                          *)
(***************************************************************************)
C16_FilesAreThread1ToM ==
    Returned =>
        /\ ret >= 2
        /\ trialLog = [n \in 1 .. ret - 1 |-> n + 1]
        /\ Targeted = {ThreadFile(n) : n \in 1 .. ret}
        /\ opened \ {SingleThreadName} \subseteq Targeted
        /\ ~bad => opened = Targeted \cup {SingleThreadName}

\* the stopping rule ended the sweep after the 3-thread trial: thread1, thread2
\* and thread3 were written, and nothing else but single_thread
C16_Witness ==
    /\ Returned
    /\ ~bad
    /\ ret = 3
    /\ opened = {SingleThreadName, ThreadFile(1), ThreadFile(2), ThreadFile(3)}

\* how many of the last trials of the throughput sequence s were, one after the
\* other, each strictly slower than the trial before it
RECURSIVE TrailingSlow(_)
TrailingSlow(s) ==
    IF Slower(s, Len(s)) THEN 1 + TrailingSlow(SubSeq(s, 1, Len(s) - 1)) ELSE 0

(***************************************************************************)
(* C18: after the calibration and after every successful trial, lastSpeed  *)
(* is the throughput of the latest trial, slower or not; so slowTests is   *)
(* the number of latest trials that were each slower than the trial just   *)
(* before it, whatever the best throughput so far was.                     *)
(***************************************************************************)
C18_ComparedWithPrevious ==
    Len(speeds) >= 1 =>
        /\ lastSpeed = speeds[Len(speeds)]
        /\ slowTests = TrailingSlow(speeds)

\* the 2-thread trial was slower than the calibration, the 3-thread trial faster
\* than the 2-thread trial and still slower than the calibration: slowTests is 0
C18_Witness ==
    /\ pc = "loop"
    /\ Len(speeds) = 3
    /\ FLess(speeds[2], speeds[1])
    /\ FLess(speeds[2], speeds[3])
    /\ FLess(speeds[3], speeds[1])
    /\ slowTests = 0
    /\ lastSpeed = speeds[3]

\* the driver is at the while of the sweep for the first time
SweepEntry == pc = "loop" /\ trialLog = << >>

(***************************************************************************)
(* C19: on entry to the sweep threadsCount = 2, slowTests = 0, and         *)
(* lastSpeed is the throughput of the calibration trial: the bytes it      *)
(* wrote, which are g_portionsCount Blocks of the size before calibration  *)
(* (g_portionSize), over the duration it took (lastWriteTime), also when   *)
(* the Block was shrunk.                                                   *)
(***************************************************************************)
C19_LastSpeedIsCalibrationThroughput ==
    SweepEntry =>
        /\ threadsCount = 2
        /\ slowTests = 0
        /\ lastSpeed = CalculateSpeed(g_portionSize, 1, lastWriteTime)

\* 2^k as a natural number of any size
RECURSIVE BPow2(_)
BPow2(k) == IF k = 0 THEN BN(1) ELSE BMulS(BPow2(k - 1), 2)

\* the sum of the durations in the results vector r of a trial of n threads
RECURSIVE SumResults(_, _)
SumResults(r, n) == IF n = 0 THEN << >> ELSE BAdd(SumResults(r, n - 1), r[n - 1])

\* the float speed (MB/s, 1 MB = 2^20 bytes) is size * 10 * n bytes over the
\* average of the n durations that add up to sum nanoseconds, to within one part
\* in 2^20 (float rounding is a few parts in 2^24):
\*     | speed * 2^20 * sum - size * 10 * n * n * 10^9 | * 2^20
\*         <= size * 10 * n * n * 10^9
ThroughputMatches(speed, size, n, sum) ==
    LET k      == speed[3] + 20
        bytes  == BMul(BMulS(BMulS(BMulS(BN(size), g_portionsCount), n), n),
                       BN(1000 * 1000 * 1000))
        got    == BMul(BN(speed[2]), sum)
        a      == IF k >= 0 THEN BMul(got, BPow2(k)) ELSE got
        b      == IF k >= 0 THEN bytes ELSE BMul(bytes, BPow2(0 - k))
        aa     == BMul(a, BPow2(20))
        bb     == BMul(b, BPow2(20))
    IN  /\ speed[1] = "fin"
        /\ BLeq(aa, BAdd(bb, b))
        /\ BLeq(bb, BAdd(aa, b))

(***************************************************************************)
(* C17 (specification SpecTrial): after a successful trial of N threads    *)
(* with a Block of S bytes, the throughput the stopping rule goes by, in   *)
(* MB/s, is S * 10 * N bytes over the average of the N durations, with no  *)
(* loss other than that of the float arithmetic.                           *)
(***************************************************************************)
C17_ThroughputIsBytesPerSecond ==
    (pc = "loop" /\ Len(trialLog) >= 1) =>
        ThroughputMatches(lastSpeed, portionSize, threadsCount - 1,
                          SumResults(results, threadsCount - 1))

====
